---- MODULE Spec2Model ----
(***************************************************************************)
(* Model of generate_letter_library.py: the letter STL generator.          *)
(*                                                                         *)
(* Three specifications share the definitions of this module:              *)
(*   SpecExtrude  _extrude_contour applied to every small polyline         *)
(*   SpecContour  _extract_contour applied to every small contour list     *)
(*   Spec         main(): dependency check, batch generation, summary      *)
(*                                                                         *)
(* Numbers.  Thicknesses are kept in tenths of a millimetre.  A contour    *)
(* point is (row, col).  numpy centres the points on their mean and        *)
(* multiplies by 40 / max_extent; the model keeps the centred coordinates  *)
(* multiplied by the point count n (n*p - sum(p), an integer) and stores   *)
(* the uniform factor once per mesh as scale = <<numerator, denominator>>. *)
(***************************************************************************)
EXTENDS Integers, Sequences, FiniteSets, TLC

VARIABLES
    polyline,     \* SpecExtrude: contour_points handed to _extrude_contour
    height,       \* SpecExtrude: the height argument (tenths of a mm)
    built,        \* SpecExtrude: the vertices / faces lists of lines 161-187
    mesh_obj,     \* SpecExtrude: the returned trimesh object
    epc,          \* SpecExtrude: "call" before, "done" after the call
    contours,     \* SpecContour: what measure.find_contours returned
    simplified,   \* SpecContour: what _extract_contour returned
    cpc,          \* SpecContour: "call" before, "done" after the call
    missing,      \* Spec: the packages that are not installed
    font,         \* Spec: the font the candidate list resolves to
    dirs,         \* Spec: the directories that exist under the output root
    files,        \* Spec: the files of the variant directories, path -> content
    gen,          \* Spec: per path written, the font of the export that wrote
                  \*       it last, or "partial" for an export that broke off
    pc,           \* Spec: "start", "loop", "summary", "exit" or "crashed"
    mode,         \* Spec: "none", then the branch main took: "default" or "full"
    li,           \* Spec: position of generate_*'s loop in its letter list
    log,          \* Spec: per pair attempted in this run, its progress line
                  \*       and what the attempt did
    console,      \* Spec: the other blocks printed in this run
    summary,      \* Spec: what _print_summary printed
    faults        \* Spec: the exceptions the environment has raised so far

evars == <<polyline, height, built, mesh_obj, epc>>
cvars == <<contours, simplified, cpc>>
bvars == <<missing, font, dirs, files, gen, pc, mode, li, log, console,
           summary, faults>>
vars == <<evars, cvars, bvars>>

----------------------------------------------------------------------------
(* Bounds of the model *)

\* longest polyline handed to the extruder in SpecExtrude
MaxN == 4
\* contour points of SpecExtrude lie on the grid 0..MaxCoord x 0..1
MaxCoord == 1
\* longest contour handed to the downsampling in SpecContour
MaxContourLen == 310
\* exceptions the environment raises in one behaviour of Spec
MaxFaults == 1

(* Program constants *)

\* line 107: fewer than 3 contour points is a failure
MinPoints == 3
\* line 150: the contour is scaled to 40.0 / max_extent
TargetWidth == 40
\* line 132: step = max(1, len(main_contour) // 100)
TargetPoints == 100

\* lines 23-40: VARIANTS, in insertion order, thickness in tenths of a mm
VARIANTS ==
    << [name |-> "pin",        thickness |-> 35],
       [name |-> "magnet",     thickness |-> 45],
       [name |-> "keyring",    thickness |-> 55],
       [name |-> "cake_mould", thickness |-> 100] >>

----------------------------------------------------------------------------
(* Helpers *)

Abs(x) == IF x < 0 THEN 0 - x ELSE x

SetMax(S) == IF S = {} THEN 0 ELSE CHOOSE y \in S : \A z \in S : z <= y

RECURSIVE SumCol(_, _, _)
SumCol(s, k, i) == IF i > Len(s) THEN 0 ELSE s[i][k] + SumCol(s, k, i + 1)

----------------------------------------------------------------------------
(* _extrude_contour, lines 137-196 *)

\* lines 144-145: coords -= coords.mean(axis=0), kept times n
Centered(pts) ==
    LET n == Len(pts)
    IN  [i \in 1..n |-> << n * pts[i][1] - SumCol(pts, 1, 1),
                           n * pts[i][2] - SumCol(pts, 2, 1) >>]

\* line 148: np.max(np.abs(coords)), of the centred coordinates (times n)
max_extent(c) == SetMax({Abs(c[i][k]) : i \in 1..Len(c), k \in 1..2})

\* lines 149-150: the factor applied to the centred coordinates; with the
\* coordinates kept times n it is 40/max_extent when max_extent > 0, else 1/n
ScaleFactor(c) ==
    IF max_extent(c) > 0 THEN <<TargetWidth, max_extent(c)>> ELSE <<1, Len(c)>>

\* line 153: coords[:, 1] = -coords[:, 1]
FlipY(c) == [i \in 1..Len(c) |-> <<c[i][1], 0 - c[i][2]>>]

\* lines 141-153
coords(contour_points) == FlipY(Centered(contour_points))

\* lines 157-158, 165-166: the bottom ring followed by the top ring
Vertices(c, h) ==
    [i \in 1..Len(c) |-> <<c[i][1], c[i][2], 0>>] \o
    [i \in 1..Len(c) |-> <<c[i][1], c[i][2], h>>]

\* lines 169-172: two triangles per side quad, i in range(n_points - 1)
SideFaces(n) ==
    [k \in 1..(2 * (n - 1)) |->
        LET i == (k - 1) \div 2
        IN  IF k % 2 = 1 THEN <<i, i + 1, i + 1 + n>>
                         ELSE <<i, i + 1 + n, i + n>>]

\* lines 175-176: close the loop
CloseFaces(n) == << <<n - 1, 0, n>>, <<n - 1, n, 2 * n - 1>> >>

\* the bottom fan run one step too far: range(1, n_points)
BottomFacesOneMore(n) == [i \in 1..(n - 1) |-> <<0, i + 1, i>>]

\* lines 179-180: bottom fan, i in range(1, n_points - 1)
BottomFaces(n) == [i \in 1..(n - 2) |-> <<0, i + 1, i>>]

\* lines 183-184: top fan
TopFaces(n) == [i \in 1..(n - 2) |-> <<n, n + i, n + i + 1>>]

\* lines 161-187: the faces list in the order it is appended
Faces(n) == SideFaces(n) \o CloseFaces(n) \o BottomFaces(n) \o TopFaces(n)

(* trimesh.Trimesh(vertices, faces), line 190.  The constructor runs with   *)
(* its default process=True, which merges the referenced vertices that are *)
(* equal and rewrites the faces to the merged indices; the merged vertex   *)
(* list is ordered by value.  Faces are neither added nor removed.         *)

LessV(a, b) ==
    \/ a[1] < b[1]
    \/ a[1] = b[1] /\ a[2] < b[2]
    \/ a[1] = b[1] /\ a[2] = b[2] /\ a[3] < b[3]

RECURSIVE SortV(_)
SortV(S) ==
    IF S = {} THEN <<>>
    ELSE LET m == CHOOSE x \in S : \A y \in S \ {x} : LessV(x, y)
         IN  <<m>> \o SortV(S \ {m})

IndexOf(s, v) == CHOOSE i \in 1..Len(s) : s[i] = v

merge_vertices(vertices, faces) ==
    LET referenced == {faces[f][k] : f \in 1..Len(faces), k \in 1..3}
        unique == SortV({vertices[i + 1] : i \in referenced})
        inverse(i) == IndexOf(unique, vertices[i + 1]) - 1
    IN  [vertices |-> unique,
         faces |-> [f \in 1..Len(faces) |->
                     <<inverse(faces[f][1]), inverse(faces[f][2]),
                       inverse(faces[f][3])>>]]

Trimesh(vertices, faces) == merge_vertices(vertices, faces)

(* mesh_obj.fix_normals(), line 193: fix_winding, then fix_inversion.  The *)
(* faces of lines 168-184 are wound consistently (BuiltWindingConsistent   *)
(* below), so fix_winding keeps them; fix_inversion reverses every face    *)
(* when the signed volume is negative.  Neither step adds or removes a    *)
(* face or changes the set of indices of a face, so a triangle that the   *)
(* merge left with a repeated index stays in the mesh.                     *)

Det3(a, b, c) ==
      a[1] * (b[2] * c[3] - b[3] * c[2])
    - a[2] * (b[1] * c[3] - b[3] * c[1])
    + a[3] * (b[1] * c[2] - b[2] * c[1])

RECURSIVE Volume6(_, _)
Volume6(m, f) ==
    IF f > Len(m.faces) THEN 0
    ELSE Det3(m.vertices[m.faces[f][1] + 1], m.vertices[m.faces[f][2] + 1],
              m.vertices[m.faces[f][3] + 1]) + Volume6(m, f + 1)

fix_normals(m) ==
    IF Volume6(m, 1) < 0
    THEN [m EXCEPT !.faces = [f \in 1..Len(m.faces) |->
                                <<m.faces[f][3], m.faces[f][2], m.faces[f][1]>>]]
    ELSE m

(* trimesh.repair.fill_holes(mesh_obj), line 194: closes the loops of      *)
(* boundary edges, the edges that belong to one face only.  It adds faces  *)
(* only along such edges and removes none.                                 *)

EdgeSlots(faces) == {<<f, k>> : f \in 1..Len(faces), k \in 1..3}
EdgeFrom(faces, s) == faces[s[1]][s[2]]
EdgeTo(faces, s) == faces[s[1]][(s[2] % 3) + 1]

\* the edge slots of the face list that run between a and b, either way
Incident(faces, a, b) ==
    {s \in EdgeSlots(faces) :
        \/ EdgeFrom(faces, s) = a /\ EdgeTo(faces, s) = b
        \/ EdgeFrom(faces, s) = b /\ EdgeTo(faces, s) = a}

BoundaryEdges(faces) ==
    {s \in EdgeSlots(faces) :
        Cardinality(Incident(faces, EdgeFrom(faces, s), EdgeTo(faces, s))) = 1}

fill_holes(m) == m

\* line 196: the mesh returned, with the factor of line 150 it was scaled by
Scaled(m, factor) ==
    [vertices |-> m.vertices, faces |-> m.faces, scale |-> factor]

\* lines 137-196
extrude_contour(contour_points, h) ==
    Scaled(fill_holes(fix_normals(
               Trimesh(Vertices(coords(contour_points), h),
                       Faces(Len(contour_points))))),
           ScaleFactor(Centered(contour_points)))

----------------------------------------------------------------------------
(* _extract_contour, lines 116-135 *)

\* line 128: max(contours, key=len), the first of the longest contours
main_contour(cs) ==
    cs[CHOOSE i \in 1..Len(cs) :
          /\ \A j \in 1..Len(cs) : Len(cs[j]) <= Len(cs[i])
          /\ \A j \in 1..(i - 1) : Len(cs[j]) < Len(cs[i])]

\* the step rounded up instead of down
SampleStepRoundedUp(len) == (len \div TargetPoints) + 1

\* line 132: step = max(1, len(main_contour) // 100)
SampleStep(len) ==
    IF len \div TargetPoints < 1 THEN 1 ELSE len \div TargetPoints

\* line 133: main_contour[::step], the points at offsets 0, step, 2*step, ...
Stride(s, step) ==
    [k \in 1..((Len(s) + step - 1) \div step) |-> s[(k - 1) * step + 1]]

\* lines 132-133
Simplify(main) == Stride(main, SampleStep(Len(main)))

\* lines 122-135
extract_contour(cs) ==
    IF cs = <<>> THEN <<>> ELSE Simplify(main_contour(cs))

\* the test with the wrong limit: two points pass
InsufficientPointsBelowTwo(contour_points) == Len(contour_points) < MinPoints - 1

\* line 107: len(contour_points) < 3
InsufficientPoints(contour_points) == Len(contour_points) < MinPoints

----------------------------------------------------------------------------
(* The generator, lines 19-278, and main, lines 281-309 *)

\* line 43
CENTRIA_LETTERS == <<"C", "E", "N", "T", "R", "I", "A">>
\* line 44
FULL_ALPHABET ==
    <<"A", "B", "C", "D", "E", "F", "G", "H", "I", "J", "K", "L", "M",
      "N", "O", "P", "Q", "R", "S", "T", "U", "V", "W", "X", "Y", "Z">>

LetterIndex(letter) ==
    CHOOSE k \in 1..Len(FULL_ALPHABET) : FULL_ALPHABET[k] = letter

VariantNames == {VARIANTS[k].name : k \in 1..Len(VARIANTS)}

\* lines 12-17: imported when the module is loaded
ModuleImports == {"numpy", "stl", "trimesh", "PIL"}
\* lines 289-290: imported inside main's try
CheckedImports == {"scipy", "skimage"}

\* lines 64-85: a candidate truetype font resolves, or load_default() is used
Fonts == {"truetype", "default"}

(* measure.find_contours on the rendered bitmap, line 122: the contour     *)
(* lists of one environment.  Rows of the table: a triangle; a closed      *)
(* contour (find_contours ends a closed contour on its first point) with   *)
(* the shorter contour of a hole; an open quadrilateral.  Under the        *)
(* default font the geometry differs, "C" has no foreground contour and    *)
(* "I" has a contour of two points.                                        *)
Glyph(f, letter) ==
    LET k == LetterIndex(letter)
        o == IF f = "truetype" THEN 0 ELSE 1
    IN  IF f = "default" /\ letter = "C" THEN <<>>
        ELSE IF f = "default" /\ letter = "I" THEN << <<<<0, 0>>, <<0, 1>>>> >>
        ELSE IF k % 3 = 0 THEN << <<<<0, 0>>, <<0, 2 + o>>, <<2, 0>>>> >>
        ELSE IF k % 3 = 1
             THEN << <<<<1, 1>>, <<1, 2>>, <<2, 1>>>>,
                     <<<<0, 0>>, <<0, 3>>, <<3, 3 + o>>, <<0, 0>>>> >>
        ELSE << <<<<0, 0>>, <<0, 3>>, <<3, 3>>, <<3, o>>>> >>

None == [vertices |-> <<>>, faces |-> <<>>, scale |-> <<0, 1>>]

\* lines 107-114
MeshOf(contour_points, thickness) ==
    IF InsufficientPoints(contour_points) THEN None
    ELSE extrude_contour(contour_points, thickness)

\* lines 55-114
create_letter_mesh(f, letter, thickness) ==
    MeshOf(extract_contour(Glyph(f, letter)), thickness)

\* line 216: output_dir / variant_name / f"Letter_{letter}_{variant_name}.stl"
OutputFile(letter, variant_name) ==
    <<variant_name, <<"Letter", letter, variant_name, "stl">>>>

\* line 219: an STL file holds the triangles by their corner coordinates
stl_encode(m) ==
    [scale |-> m.scale,
     triangles |-> [f \in 1..Len(m.faces) |->
                     <<m.vertices[m.faces[f][1] + 1],
                       m.vertices[m.faces[f][2] + 1],
                       m.vertices[m.faces[f][3] + 1]>>]]

\* the path opened for appending instead
WriteFileAppending(fs, path, data) ==
    (path :> (IF path \in DOMAIN fs THEN fs[path] \o data ELSE data)) @@ fs

\* line 219: export opens the path for writing, which replaces its content
WriteFile(fs, path, data) == (path :> data) @@ fs

\* create_letter_mesh and the STL encoding of its mesh for every font, letter
\* and thickness: both are functions of these three alone, tabulated once
Exported(m) ==
    [mesh |-> m, stl |-> IF m = None THEN <<>> ELSE <<stl_encode(m)>>]

Pipeline ==
    [f \in Fonts |->
      [k \in 1..Len(FULL_ALPHABET) |->
        [t \in {VARIANTS[v].thickness : v \in 1..Len(VARIANTS)} |->
          Exported(create_letter_mesh(f, FULL_ALPHABET[k], t))]]]

\* lines 226-227: except Exception catches what the try body raises
ExceptionKinds == {"render", "extrude", "export", "export_partial", "stat"}
\* a handler that names the export's error class only
HandledExportOnly(exc) == exc \in {"export", "export_partial"}
Handled(exc) == exc \in ExceptionKinds

(* The try body of lines 207-224 for one pair.  fault names the call the   *)
(* environment makes raise: "render" in lines 60-96, "extrude" inside      *)
(* _extrude_contour, "export" in line 219 before the file is opened,       *)
(* "export_partial" in line 219 after it was opened, "stat" in line 222.   *)
Outcome(made, fault) ==
    LET letter_mesh == made.mesh
    IN  IF fault = "render"
        THEN [exc |-> fault, status |-> "ERROR", wrote |-> "none",
              extruded |-> FALSE, data |-> <<>>, vertices |-> 0]
        ELSE IF letter_mesh = None
        THEN [exc |-> "none", status |-> "FAILED", wrote |-> "none",
              extruded |-> FALSE, data |-> <<>>, vertices |-> 0]
        ELSE IF fault \in {"extrude", "export"}
        THEN [exc |-> fault, status |-> "ERROR", wrote |-> "none",
              extruded |-> TRUE, data |-> <<>>, vertices |-> 0]
        ELSE IF fault = "export_partial"
        THEN [exc |-> fault, status |-> "ERROR", wrote |-> "partial",
              extruded |-> TRUE, data |-> <<>>, vertices |-> 0]
        ELSE IF fault = "stat"
        THEN [exc |-> fault, status |-> "ERROR", wrote |-> "full",
              extruded |-> TRUE, data |-> made.stl,
              vertices |-> 0]
        ELSE [exc |-> "none", status |-> "OK", wrote |-> "full",
              extruded |-> TRUE, data |-> made.stl,
              vertices |-> Len(letter_mesh.vertices)]

TryBody(f, letter, thickness, fault) ==
    Outcome(Pipeline[f][LetterIndex(letter)][thickness], fault)

\* the faults that can arise for a pair: a glyph without a usable contour
\* never reaches the extruder, the export or the size check
FaultChoices(f, letter) ==
    IF InsufficientPoints(extract_contour(Glyph(f, letter)))
    THEN {"none", "render"}
    ELSE {"none"} \cup ExceptionKinds

(* lines 205-229: one iteration of the loop over VARIANTS.  st holds the   *)
(* files, the log and whether an exception has left the loop; fault is the *)
(* call the environment makes raise in this iteration.                     *)
Iteration(st, f, letter, specs, r) ==
    LET output_file == OutputFile(letter, specs.name)
        caught == r.exc = "none" \/ Handled(r.exc)
    IN  IF st.crashed THEN st
        ELSE [files |-> IF r.wrote = "none" THEN st.files
                        ELSE WriteFile(st.files, output_file, r.data),
              gen |-> IF r.wrote = "none" THEN st.gen
                      ELSE (output_file :>
                              (IF r.wrote = "full" THEN f ELSE "partial"))
                           @@ st.gen,
              log |-> IF caught
                      THEN Append(st.log,
                             [letter |-> letter, variant |-> specs.name,
                              status |-> r.status, wrote |-> r.wrote,
                              extruded |-> r.extruded,
                              vertices |-> r.vertices,
                              previous |-> IF output_file \in DOMAIN st.gen
                                           THEN st.gen[output_file]
                                           ELSE "absent"])
                      ELSE st.log,
              crashed |-> ~caught]

VariantIteration(st, f, letter, specs, fault) ==
    Iteration(st, f, letter, specs, TryBody(f, letter, specs.thickness, fault))

\* lines 198-229: the loop over VARIANTS in their order; fv[v] is the fault
\* of the iteration for VARIANTS[v]
generate_letter_variants(st, f, letter, fv) ==
    LET after[v \in 0..Len(VARIANTS)] ==
            IF v = 0 THEN st
            ELSE VariantIteration(after[v - 1], f, letter, VARIANTS[v], fv[v])
    IN  after[Len(VARIANTS)]

\* lines 241, 256: the letter list of the branch main took
Letters(m) == IF m = "full" THEN FULL_ALPHABET ELSE CENTRIA_LETTERS

\* line 274: variant_dir.glob('*.stl')
GlobStl(fs, variant_name) ==
    {p[2] : p \in {q \in DOMAIN fs : q[1] = variant_name /\ q[2][Len(q[2])] = "stl"}}

\* line 274: sorted(...); "Letter_..." names sort by letter and before
\* lower-case names
NameKey(name) ==
    IF name[1] = "Letter" THEN LetterIndex(name[2]) ELSE Len(FULL_ALPHABET) + 1

RECURSIVE SortNames(_)
SortNames(S) ==
    IF S = {} THEN <<>>
    ELSE LET m == CHOOSE x \in S : \A y \in S : NameKey(x) <= NameKey(y)
         IN  <<m>> \o SortNames(S \ {m})

\* lines 261-278
print_summary(fs, letters) ==
    [letters |-> letters,
     total |-> Len(letters) * Len(VARIANTS),
     listing |-> [v \in VariantNames |-> SortNames(GlobStl(fs, v))]]

NoSummary ==
    [letters |-> <<>>, total |-> 0, listing |-> [v \in VariantNames |-> <<>>]]

EmptyFS == [p \in {} |-> <<>>]

\* files found in the output directory that no run of the program wrote
ForeignFiles ==
    [p \in {<<"pin", <<"extra", "stl">>>>, <<"pin", <<"notes", "txt">>>>} |-> <<>>]

\* lines 47-53: the output root and one directory per variant
AllDirs == {"root"} \cup VariantNames

----------------------------------------------------------------------------
(* The part of the state each specification leaves idle *)

ExtrudeIdle ==
    /\ polyline = <<>>
    /\ height = 0
    /\ built = [vertices |-> <<>>, faces |-> <<>>]
    /\ mesh_obj = None
    /\ epc = "idle"

ContourIdle ==
    /\ contours = <<>>
    /\ simplified = <<>>
    /\ cpc = "idle"

BatchIdle ==
    /\ missing = {}
    /\ font = "truetype"
    /\ dirs = {}
    /\ files = EmptyFS
    /\ gen = EmptyFS
    /\ pc = "idle"
    /\ mode = "none"
    /\ li = 1
    /\ log = <<>>
    /\ console = <<>>
    /\ summary = NoSummary
    /\ faults = 0

----------------------------------------------------------------------------
(* SpecExtrude: _extrude_contour on every polyline of MinPoints..MaxN      *)
(* points of the grid, at every variant thickness.                         *)

Grid == (0..MaxCoord) \X (0..1)
Polylines == UNION {[1..n -> Grid] : n \in MinPoints..MaxN}
Heights == {VARIANTS[k].thickness : k \in 1..Len(VARIANTS)}

InitExtrude ==
    /\ polyline \in Polylines
    /\ height \in Heights
    /\ built = [vertices |-> <<>>, faces |-> <<>>]
    /\ mesh_obj = None
    /\ epc = "call"
    /\ ContourIdle
    /\ BatchIdle

ExtrudeContour ==
    /\ epc = "call"
    /\ built' = [vertices |-> Vertices(coords(polyline), height),
                 faces |-> Faces(Len(polyline))]
    /\ mesh_obj' = extrude_contour(polyline, height)
    /\ epc' = "done"
    /\ UNCHANGED <<polyline, height, cvars, bvars>>

NextExtrude == ExtrudeContour

SpecExtrude == InitExtrude /\ [][NextExtrude]_vars

----------------------------------------------------------------------------
(* SpecContour: _extract_contour on lists of at most two contours, the     *)
(* first of every length up to MaxContourLen.                              *)

\* a contour of len points; the points of contour c are <<c, 1>>, <<c, 2>>, ...
Ring(c, len) == [k \in 1..len |-> <<c, k>>]

ContourLists ==
    {<<>>}
    \cup {<<Ring(1, a)>> : a \in 1..MaxContourLen}
    \cup {<<Ring(1, a), Ring(2, b)>> : a \in 1..MaxContourLen, b \in {2, 150}}

InitContour ==
    /\ contours \in ContourLists
    /\ simplified = <<>>
    /\ cpc = "call"
    /\ ExtrudeIdle
    /\ BatchIdle

ExtractContour ==
    /\ cpc = "call"
    /\ simplified' = extract_contour(contours)
    /\ cpc' = "done"
    /\ UNCHANGED <<contours, evars, bvars>>

NextContour == ExtractContour

SpecContour == InitContour /\ [][NextContour]_vars

----------------------------------------------------------------------------
(* Spec: the program run from the command line, again and again, on an     *)
(* output directory that is empty or holds files of another origin.        *)

Init ==
    /\ missing \in {{}} \cup {{p} : p \in ModuleImports \cup CheckedImports}
    /\ font \in Fonts
    /\ \/ dirs = {} /\ files = EmptyFS
       \/ dirs = AllDirs /\ files = ForeignFiles
    /\ gen = EmptyFS
    /\ pc = "start"
    /\ mode = "none"
    /\ li = 1
    /\ log = <<>>
    /\ console = <<>>
    /\ summary = NoSummary
    /\ faults = 0
    /\ ExtrudeIdle
    /\ ContourIdle

\* lines 12-17: a missing module-level import ends the process with the
\* interpreter's traceback, before main is entered
ImportFails ==
    /\ pc = "start"
    /\ missing \cap ModuleImports # {}
    /\ console' = Append(console, "traceback")
    /\ pc' = "crashed"
    /\ UNCHANGED <<missing, font, dirs, files, gen, mode, li, log, summary,
                   faults, evars, cvars>>

\* lines 284-295: the dependency check of main fails
DependencyAbort ==
    /\ pc = "start"
    /\ missing \cap ModuleImports = {}
    /\ missing \cap CheckedImports # {}
    /\ console' = console \o <<"banner", "missing_deps">>
    /\ pc' = "exit"
    /\ UNCHANGED <<missing, font, dirs, files, gen, mode, li, log, summary,
                   faults, evars, cvars>>

\* lines 297-304, 46-53, 233-239 / 248-254: main picks the branch, builds
\* the generator (which makes the directories) and prints the header
StartRun ==
    /\ pc = "start"
    /\ missing = {}
    /\ \E m \in {"default", "full"} : mode' = m
    /\ dirs' = dirs \cup AllDirs
    /\ console' = console \o <<"banner", "header">>
    /\ li' = 1
    /\ pc' = "loop"
    /\ UNCHANGED <<missing, font, files, gen, log, summary, faults, evars, cvars>>

\* the environment raises its exceptions while the first letter of a run's
\* list is processed
FaultWindow == {1}

NumFaults(fv) == Cardinality({v \in DOMAIN fv : fv[v] # "none"})

\* per variant, the call the environment makes raise while letter is processed
FaultVectors(f, letter, pos, budget) ==
    IF pos \in FaultWindow /\ budget > 0
    THEN {fv \in [1..Len(VARIANTS) -> FaultChoices(f, letter)] :
            NumFaults(fv) <= budget}
    ELSE {[v \in 1..Len(VARIANTS) |-> "none"]}

\* lines 198-229: one call of generate_letter_variants, the loop over VARIANTS
\* with the call of line 242 / 257 that makes it
GenerateLetterVariants ==
    /\ pc = "loop"
    /\ LET letter == Letters(mode)[li]
       IN  \E fv \in FaultVectors(font, letter, li, MaxFaults - faults) :
           \E st \in {generate_letter_variants(
                         [files |-> files, gen |-> gen, log |-> log,
                          crashed |-> FALSE], font, letter, fv)} :
                 /\ faults' = faults + NumFaults(fv)
                 /\ files' = st.files
                 /\ gen' = st.gen
                 /\ log' = st.log
                 /\ IF st.crashed
                    THEN /\ pc' = "crashed"
                         /\ console' = Append(console, "traceback")
                         /\ li' = li
                    ELSE /\ pc' = IF li = Len(Letters(mode))
                                  THEN "summary" ELSE "loop"
                         /\ console' = console
                         /\ li' = IF li = Len(Letters(mode)) THEN li ELSE li + 1
    /\ UNCHANGED <<missing, font, dirs, mode, summary, evars, cvars>>

\* lines 244 / 259, 261-278, and the tip of lines 306-309 in the default branch
PrintSummary ==
    /\ pc = "summary"
    /\ summary' = print_summary(files, Letters(mode))
    /\ console' = console \o
                    (IF mode = "default" THEN <<"summary", "tip">> ELSE <<"summary">>)
    /\ pc' = "exit"
    /\ UNCHANGED <<missing, font, dirs, files, gen, mode, li, log, faults,
                   evars, cvars>>

\* the command is run again, with the same packages and fonts installed
Invoke ==
    /\ pc \in {"exit", "crashed"}
    /\ missing = {}
    /\ pc' = "start"
    /\ mode' = "none"
    /\ li' = 1
    /\ log' = <<>>
    /\ console' = <<>>
    /\ summary' = NoSummary
    /\ UNCHANGED <<missing, font, dirs, files, gen, faults, evars, cvars>>

Next ==
    \/ ImportFails
    \/ DependencyAbort
    \/ StartRun
    \/ GenerateLetterVariants
    \/ PrintSummary
    \/ Invoke

Spec == Init /\ [][Next]_vars

----------------------------------------------------------------------------
(* Properties of the extruder, checked under SpecExtrude *)

\* every edge of a face list lies in exactly two faces, once each way
Watertight(faces) ==
    \A s \in EdgeSlots(faces) :
        LET a == EdgeFrom(faces, s)
            b == EdgeTo(faces, s)
        IN  /\ a # b
            /\ Cardinality(Incident(faces, a, b)) = 2
            /\ \E t \in EdgeSlots(faces) :
                   EdgeFrom(faces, t) = b /\ EdgeTo(faces, t) = a

\* the faces as built wind consistently: fix_winding has nothing to flip
BuiltWindingConsistent == epc = "done" => Watertight(built.faces)

\* no edge of the merged mesh lies in one face only: fill_holes adds nothing
FillHolesHasNoWork == epc = "done" => BoundaryEdges(mesh_obj.faces) = {}

Distinct(s) == \A i, j \in 1..Len(s) : i # j => s[i] # s[j]

\* with pairwise distinct points the returned mesh has 2 x N vertices and is
\* watertight, wound outward
DistinctPointsMeshSound ==
    (epc = "done" /\ Distinct(polyline)) =>
        /\ Len(mesh_obj.vertices) = 2 * Len(polyline)
        /\ Watertight(mesh_obj.faces)
        /\ Volume6(mesh_obj, 1) >= 0

\* C3: the mesh returned for a polyline of N >= 3 points has exactly 2 x N
\* vertices, also when the polyline repeats a point.
C3_VertexCountTwiceN ==
    epc = "done" => Len(mesh_obj.vertices) = 2 * Len(polyline)

\* C4: every edge of the faces of the returned mesh lies in exactly two
\* triangles, which traverse it in opposite directions.
C4_MeshWatertight ==
    epc = "done" => Watertight(mesh_obj.faces)

\* C9: the extruder builds 2 x N vertices, the top ring in the order of the
\* bottom ring and of the input, and 4N - 4 triangles: 2N of the side wall
\* (pair (i, i+1) and the wrap-around pair (N-1, 0)), N - 2 of the bottom cap
\* fanned from vertex 0 with indices below N, N - 2 of the top cap fanned
\* from vertex N with indices from N on; every triangle has three distinct
\* indices in 0..2N-1.
C9_FacesAsBuilt ==
    epc = "done" =>
        LET n == Len(polyline)
            F == built.faces
            V == built.vertices
        IN  /\ Len(V) = 2 * n
            /\ Len(F) = 4 * n - 4
            /\ \A f \in 1..Len(F) :
                  /\ \A k \in 1..3 : F[f][k] \in 0..(2 * n - 1)
                  /\ F[f][1] # F[f][2] /\ F[f][2] # F[f][3] /\ F[f][1] # F[f][3]
            /\ \A i \in 0..(n - 1) :
                  LET nx == (i + 1) % n
                  IN  /\ F[2 * i + 1] = <<i, nx, nx + n>>
                      /\ F[2 * i + 2] = <<i, nx + n, i + n>>
            /\ \A f \in (2 * n + 1)..(3 * n - 2) :
                  F[f][1] = 0 /\ \A k \in 1..3 : F[f][k] < n
            /\ \A f \in (3 * n - 1)..(4 * n - 4) :
                  F[f][1] = n /\ \A k \in 1..3 : F[f][k] >= n
            /\ \A i \in 1..n :
                  /\ V[i][3] = 0
                  /\ V[i + n] = <<V[i][1], V[i][2], height>>
                  /\ \A j \in 1..n :
                        (polyline[i] = polyline[j]) <=>
                            (V[i][1] = V[j][1] /\ V[i][2] = V[j][2])

\* a polyline of four points, the last equal to the first, has been extruded
C9_Witness ==
    /\ epc = "done"
    /\ Len(polyline) = 4
    /\ polyline[1] = polyline[4]
    /\ Len(built.faces) = 12

----------------------------------------------------------------------------
(* Properties of the contour extraction, checked under SpecContour *)

\* C10: the result keeps every step-th point of the longest contour from
\* its first point on, in order, with step = max(1, L div 100); a contour
\* of at most 100 points is returned unchanged; for L >= 100 the result
\* has at least 100 and fewer than 200 points.
C10_Downsampling ==
    (cpc = "done" /\ contours # <<>>) =>
        \E c \in 1..Len(contours) :
            LET main == contours[c]
                L == Len(main)
                step == IF L < 100 THEN 1 ELSE L \div 100
            IN  /\ \A d \in 1..Len(contours) : Len(contours[d]) <= L
                /\ Len(simplified) =
                       Cardinality({i \in 0..(L - 1) : i % step = 0})
                /\ \A k \in 1..Len(simplified) :
                       simplified[k] = main[(k - 1) * step + 1]
                /\ L <= 100 => simplified = main
                /\ L >= 100 => Len(simplified) >= 100 /\ Len(simplified) < 200

\* a contour of 299 points, the longer of two, was cut to every second point
C10_Witness ==
    /\ cpc = "done"
    /\ Len(contours) = 2
    /\ Len(contours[1]) = 299
    /\ Len(contours[2]) = 150
    /\ Len(simplified) = 150
    /\ simplified[2] = contours[1][3]

----------------------------------------------------------------------------
(* Properties of the batch, checked under Spec *)

PairLetter(k) == Letters(mode)[((k - 1) \div Len(VARIANTS)) + 1]
PairVariant(k) == VARIANTS[((k - 1) % Len(VARIANTS)) + 1].name
LogPath(k) == OutputFile(log[k].letter, log[k].variant)

\* C1 (amended): the pairs are attempted in order, each once; every attempt
\* ends with the file written at its path, or a skip or error reported, or
\* both (an error raised after the file was opened or written); OK is
\* reported only for a file written in full; no exception leaves the loop,
\* and the loop ends only when every pair was attempted.
C1_EveryPairAttempted ==
    /\ pc = "crashed" => mode = "none"
    /\ mode # "none" =>
        /\ \A k \in 1..Len(log) :
              /\ log[k].letter = PairLetter(k)
              /\ log[k].variant = PairVariant(k)
              /\ log[k].status \in {"OK", "FAILED", "ERROR"}
              /\ log[k].wrote # "none" \/ log[k].status # "OK"
              /\ log[k].status = "OK" => log[k].wrote = "full"
              /\ log[k].wrote # "none" => LogPath(k) \in DOMAIN files
              /\ log[k].wrote = "full" => files[LogPath(k)] # <<>>
        /\ pc = "loop" => Len(log) = (li - 1) * Len(VARIANTS)
        /\ pc \in {"summary", "exit"} =>
              Len(log) = Len(Letters(mode)) * Len(VARIANTS)

\* C1 (as claimed): each attempt ends in exactly one of the two outcomes,
\* the file written or a skip/error reported.
C1_ExactlyOneOutcome ==
    \A k \in 1..Len(log) :
        (log[k].wrote # "none") # (log[k].status # "OK")

\* a full run ended its loop after an error for one of its first pairs
C1_Witness ==
    /\ pc = "summary"
    /\ mode = "full"
    /\ \E k \in 1..Len(log) : log[k].status = "ERROR" /\ log[k].wrote = "none"
    /\ log[Len(log)].status = "OK"

ListedTotal ==
    Len(summary.listing["pin"]) + Len(summary.listing["magnet"])
    + Len(summary.listing["keyring"]) + Len(summary.listing["cake_mould"])

\* C2: a --full run attempts exactly 104 pairs, each once, and its summary
\* lists at most 104 files, whatever the output directory held before.
C2_FullRunWithin104 ==
    (mode = "full" /\ pc = "exit") =>
        /\ Len(log) = 104
        /\ \A k \in 1..Len(log) :
              log[k].letter = PairLetter(k) /\ log[k].variant = PairVariant(k)
        /\ ListedTotal <= 104

\* C5: when contour extraction yields fewer than 3 points for the letter,
\* generate_letter_variants reports a failure for each of its variants,
\* without a call of the extruder, writes no file, raises nothing and goes
\* through all the variants.  The report is FAILED unless rendering raised
\* before the extraction, which reports ERROR; that attempt extrudes and
\* writes nothing either.
C5_InsufficientContourSkipped ==
    [][(pc = "loop" /\ Len(extract_contour(Glyph(font, Letters(mode)[li]))) < 3)
        => /\ files' = files
           /\ pc' # "crashed"
           /\ Len(log') = Len(log) + Len(VARIANTS)
           /\ \A v \in 1..Len(VARIANTS) :
                 LET e == log'[Len(log) + v]
                 IN  /\ e.letter = Letters(mode)[li]
                     /\ e.variant = VARIANTS[v].name
                     /\ e.status \in {"FAILED", "ERROR"}
                     /\ faults' = faults => e.status = "FAILED"
                     /\ ~e.extruded
                     /\ e.wrote = "none"
                     /\ e.vertices = 0]_vars

\* the letters without a contour and with a two-point contour were skipped
C5_Witness ==
    /\ pc = "summary"
    /\ \E k \in 1..(Len(log) - 1) :
          /\ log[k].letter = "C" /\ log[k].status = "FAILED"
          /\ log[k + 1].letter = "C" /\ log[k + 1].status = "FAILED"
    /\ \E k \in 1..Len(log) : log[k].letter = "I" /\ log[k].status = "FAILED"
    /\ \E k \in 1..Len(log) : log[k].status = "OK"

\* C6: with a required package missing, the run ends with the instructional
\* message before any work: no generator is built, no pair attempted, no
\* summary printed.
C6_AbortWithInstruction ==
    (missing # {} /\ pc \in {"exit", "crashed"}) =>
        /\ \E k \in 1..Len(console) : console[k] = "missing_deps"
        /\ mode = "none"
        /\ log = <<>>
        /\ summary = NoSummary

C8_SummaryListsThisRun ==
    (pc = "exit" /\ mode # "none") =>
        \A v \in VariantNames :
            /\ {summary.listing[v][k] : k \in 1..Len(summary.listing[v])}
                 = {LogPath(k)[2] : k \in {j \in 1..Len(log) :
                        log[j].variant = v /\ log[j].status = "OK"}}
            /\ Len(summary.listing[v])
                 = Cardinality({j \in 1..Len(log) :
                        log[j].variant = v /\ log[j].status = "OK"})

====
